---- MODULE Spec2Model ----
(***************************************************************************)
(* mizu: the drop-drink transaction (mizu/drinks.py), the inventory query  *)
(* (mizu/drinks.py) and the item operations of the SQLAlchemy adapter      *)
(* (mizu/data_adapters/sqlalchemy_adapter.py) as a state machine.          *)
(*                                                                         *)
(* Python's None is modelled per type: an optional request field is a set  *)
(* of at most one value, an absent row is the row with id 0.               *)
(***************************************************************************)
EXTENDS Integers, Sequences, FiniteSets, TLC

\* ------------------------------------------------------------------ bounds
NumReqs == 2        \* request contexts that may be in flight together
MaxCredit == 4      \* largest balance a user starts with
MaxItems == 3       \* largest id the Item table hands out

Reqs == 1..NumReqs
Users == {"alice", "bob"}

\* ------------------------------------------------------------- the tables
\* Machine rows (id, name, display_name); provisioned out of band, read-only.
Machine ==
    << [id |-> 1, name |-> "bigdrink", display_name |-> "Big Drink"],
       [id |-> 2, name |-> "littledrink", display_name |-> "Little Drink"] >>

\* Slot rows (machine, number, item, active); read-only (update_slot_status
\* is a stub). Slot 2 of bigdrink is inactive.
Slot ==
    << [machine |-> 1, number |-> 1, item |-> 1, active |-> TRUE],
       [machine |-> 1, number |-> 2, item |-> 2, active |-> FALSE],
       [machine |-> 2, number |-> 1, item |-> 2, active |-> TRUE] >>

\* The Item rows the store starts with.
Item0 ==
    << [id |-> 1, name |-> "Coke", price |-> 2],
       [id |-> 2, name |-> "Sprite", price |-> 3] >>

NoMachine == [id |-> 0, name |-> "", display_name |-> ""]
NoSlot == [machine |-> 0, number |-> 0, item |-> 0, active |-> FALSE]
NoItem == [id |-> 0, name |-> "", price |-> 0]
NoResponse == [status |-> 0, kind |-> "none"]

\* ------------------------------------------------------------------ inputs
ContentTypes == {"application/json", "text/plain"}
MachineNames == {"bigdrink", "littledrink", "foo"}
SlotNumbers == {1, 2, 9}
\* A JSON body: each of the keys 'machine' and 'slot' present or not.
Bodies ==
    [machine : {{}} \cup {{m} : m \in MachineNames},
     slot : {{}} \cup {{n} : n \in SlotNumbers}]
\* What the machine's drop API may answer: a status, or no answer at all.
ConnectionError == "ConnectionError"
Answers == {"200", "304", "404", ConnectionError}
\* Arguments of the item operations; {} is an argument left at None.
NameArgs == {{}, {""}, {"Fanta"}}
PriceArgs == {{}, {0}, {1}}

VARIABLES
    credits,     \* Credit Ledger: user -> balance
    items,       \* Item table: sequence of rows, in row order
    next_id,     \* the id the Item table's autoincrement hands out next
    pc,          \* request -> position in drop_drink
    request,     \* request -> [user, content_type, body]
    local,       \* request -> [bal_before, machine, slot, item]
    response,    \* request -> [status, kind]
    trace,       \* request -> what the request did so far (history)
    credits0,    \* the balances the ledger started with (history)
    dispensed,   \* user -> sum of the prices of the items a machine dropped (history)
    call,        \* the last operation, when an item operation: what it returned (history)
    drinks       \* the last operation, when a GET /drinks: its response (history)

vars == << credits, items, next_id, pc, request, local, response, trace,
           credits0, dispensed, call, drinks >>

storeVars == << items, next_id, call, drinks >>

NoRequest == [user |-> "alice", content_type |-> "application/json",
              body |-> [machine |-> {}, slot |-> {}]]
NoLocal == [bal_before |-> 0, machine |-> NoMachine, slot |-> NoSlot, item |-> NoItem]
NoTrace == [reads |-> 0, posts |-> 0, writes |-> 0, remote |-> 0, at_receipt |-> 0]
NoCall == [op |-> "none", id |-> 0, name |-> {}, price |-> {},
           before |-> << >>, after |-> << >>, result |-> NoItem, raised |-> FALSE]
NoDrinks == [filter |-> {}, status |-> 0, machines |-> << >>, message |-> << >>]

\* ----------------------------------------------------------------- helpers
\* Query.first(): the first row, or None.
first(rows, none) == IF rows = << >> THEN none ELSE Head(rows)

\* The only member of a one-element set (the value of a supplied field).
the(S) == CHOOSE x \in S : TRUE

\* The status code of an answer of the machine.
StatusCode(answer) ==
    CASE answer = "200" -> 200
      [] answer = "304" -> 304
      [] answer = "404" -> 404
      [] OTHER -> 0

\* --------------------------------------------------------- collaborators
\* Credit Ledger (mizu.users): get_balance(username) -> number.
_get_credits(ledger, username) == ledger[username]

\* Credit Ledger (mizu.users): set_balance(username, number).
_manage_credits(ledger, username, balance) == [ledger EXCEPT ![username] = balance]

\* mizu.errors: a 400 "bad params" response.
bad_params == [status |-> 400, kind |-> "bad_params"]

\* mizu.errors: a 400 "bad headers" response.
bad_headers_content_type == [status |-> 400, kind |-> "bad_headers"]

\* requests.Response.raise_for_status: raises HTTPError for 4xx and 5xx only.
raise_for_status(status) == status >= 400 /\ status < 600

\* -------------------------------------------------- drop_drink, its parts
\* Lines 83-87: the required parameters the body lacks.
unprovided(body) ==
    (IF body.machine = {} THEN << "machine" >> ELSE << >>)
    \o (IF body.slot = {} THEN << "slot" >> ELSE << >>)

\* Line 94.
query_machine(name) ==
    LET IsNamed(row) == row.name = name
    IN first(SelectSeq(Machine, IsNamed), NoMachine)

\* Faulty variant of query_slot: the filter on Slot.machine is left out.
query_slot_any_machine(number, machine_id) ==
    LET IsSlot(row) == row.number = number
    IN first(SelectSeq(Slot, IsSlot), NoSlot)

\* Line 98.
query_slot(number, machine_id) ==
    LET IsSlot(row) == row.number = number /\ row.machine = machine_id
    IN first(SelectSeq(Slot, IsSlot), NoSlot)

\* Lines 105 and 54 (and the adapter's _get_item, line 191).
query_item(rows, item_id) ==
    LET IsItem(row) == row.id = item_id
    IN first(SelectSeq(rows, IsItem), NoItem)

\* Faulty variant of insufficient: the operands are swapped.
insufficient_swapped(bal_before, price) == price < bal_before

\* Line 107.
insufficient(bal_before, price) == bal_before < price

\* Faulty variant of debit: the price is not subtracted.
debit_unsubtracted(ledger, username, bal_before, price) ==
    _manage_credits(ledger, username, bal_before)

\* Variant of debit that subtracts from the ledger's current value instead of
\* the value read at line 79.
debit_reread(ledger, username, bal_before, price) ==
    _manage_credits(ledger, username, _get_credits(ledger, username) - price)

\* Lines 141-142: the ledger after the debit.
debit(ledger, username, bal_before, price) ==
    _manage_credits(ledger, username, bal_before - price)

\* ------------------------------------------------------------ drop_drink
\* Lines 73-77: POST /drinks/drop arrives on the first free context; check_token
\* resolved the caller to u; the Content-Type is checked.
Receive(r, u, ct, b) ==
    /\ pc[r] = "idle"
    /\ \A q \in Reqs : q < r => pc[q] # "idle"
    /\ request' = [request EXCEPT ![r] = [user |-> u, content_type |-> ct, body |-> b]]
    /\ trace' = [trace EXCEPT ![r] = [NoTrace EXCEPT !.at_receipt = credits[u]]]
    /\ IF ct # "application/json"
       THEN /\ response' = [response EXCEPT ![r] = bad_headers_content_type]
            /\ pc' = [pc EXCEPT ![r] = "done"]
       ELSE /\ pc' = [pc EXCEPT ![r] = "get_credits"]
            /\ UNCHANGED response
    /\ UNCHANGED << credits, local, dispensed, credits0 >>
    /\ UNCHANGED storeVars

\* Faulty variant of GetCredits: the ledger is not consulted.
GetCredits_unread(r) ==
    /\ pc[r] = "get_credits"
    /\ pc' = [pc EXCEPT ![r] = "params"]
    /\ UNCHANGED << credits, request, local, trace, response, dispensed, credits0 >>
    /\ UNCHANGED storeVars

\* Line 79.
GetCredits(r) ==
    /\ pc[r] = "get_credits"
    /\ local' = [local EXCEPT ![r].bal_before = _get_credits(credits, request[r].user)]
    /\ trace' = [trace EXCEPT ![r].reads = @ + 1]
    /\ pc' = [pc EXCEPT ![r] = "params"]
    /\ UNCHANGED << credits, request, response, dispensed, credits0 >>
    /\ UNCHANGED storeVars

\* Lines 81-92.
CheckParams(r) ==
    /\ pc[r] = "params"
    /\ IF Len(unprovided(request[r].body)) > 0
       THEN /\ response' = [response EXCEPT ![r] = bad_params]
            /\ pc' = [pc EXCEPT ![r] = "done"]
       ELSE /\ pc' = [pc EXCEPT ![r] = "machine"]
            /\ UNCHANGED response
    /\ UNCHANGED << credits, request, local, trace, dispensed, credits0 >>
    /\ UNCHANGED storeVars

\* Lines 94-96.
QueryMachine(r) ==
    /\ pc[r] = "machine"
    /\ LET machine == query_machine(the(request[r].body.machine))
       IN IF machine = NoMachine
          THEN /\ response' = [response EXCEPT ![r] = bad_params]
               /\ pc' = [pc EXCEPT ![r] = "done"]
               /\ UNCHANGED local
          ELSE /\ local' = [local EXCEPT ![r].machine = machine]
               /\ pc' = [pc EXCEPT ![r] = "slot"]
               /\ UNCHANGED response
    /\ UNCHANGED << credits, request, trace, dispensed, credits0 >>
    /\ UNCHANGED storeVars

\* Lines 98-103.
QuerySlot(r) ==
    /\ pc[r] = "slot"
    /\ LET slot == query_slot(the(request[r].body.slot), local[r].machine.id)
       IN IF slot = NoSlot
          THEN /\ response' = [response EXCEPT ![r] = bad_params]
               /\ pc' = [pc EXCEPT ![r] = "done"]
               /\ UNCHANGED local
          ELSE /\ local' = [local EXCEPT ![r].slot = slot]
               /\ pc' = [pc EXCEPT ![r] = "item"]
               /\ UNCHANGED response
    /\ UNCHANGED << credits, request, trace, dispensed, credits0 >>
    /\ UNCHANGED storeVars

\* Line 105.
QueryItem(r) ==
    /\ pc[r] = "item"
    /\ local' = [local EXCEPT ![r].item = query_item(items, local[r].slot.item)]
    /\ pc' = [pc EXCEPT ![r] = "balance"]
    /\ UNCHANGED << credits, request, response, trace, dispensed, credits0 >>
    /\ UNCHANGED storeVars

\* Lines 107-112.
CheckBalance(r) ==
    /\ pc[r] = "balance"
    /\ IF insufficient(local[r].bal_before, local[r].item.price)
       THEN /\ response' = [response EXCEPT ![r] = [status |-> 402, kind |-> "insufficient"]]
            /\ pc' = [pc EXCEPT ![r] = "done"]
       ELSE /\ pc' = [pc EXCEPT ![r] = "post"]
            /\ UNCHANGED response
    /\ UNCHANGED << credits, request, local, trace, dispensed, credits0 >>
    /\ UNCHANGED storeVars

\* Lines 114-139: the POST to the machine and its answer. The machine drops
\* the item exactly when it answers 2xx.
PostDrop(r, answer) ==
    /\ pc[r] = "post"
    /\ LET status == StatusCode(answer)
       IN /\ trace' = [trace EXCEPT ![r].posts = @ + 1,
                                    ![r].remote = IF answer = ConnectionError THEN -1 ELSE status]
          /\ dispensed' = IF status >= 200 /\ status < 300
                          THEN [dispensed EXCEPT ![request[r].user] = @ + local[r].item.price]
                          ELSE dispensed
          /\ IF answer = ConnectionError
             THEN /\ response' = [response EXCEPT ![r] = [status |-> 500, kind |-> "unreachable"]]
                  /\ pc' = [pc EXCEPT ![r] = "done"]
             ELSE IF raise_for_status(status)
             THEN /\ response' = [response EXCEPT ![r] = [status |-> status, kind |-> "rejected"]]
                  /\ pc' = [pc EXCEPT ![r] = "done"]
             ELSE /\ response' = [response EXCEPT ![r] = [status |-> status, kind |-> "pending"]]
                  /\ pc' = [pc EXCEPT ![r] = "debit"]
    /\ UNCHANGED << credits, request, local, credits0 >>
    /\ UNCHANGED storeVars

\* Lines 141-144.
Debit(r) ==
    /\ pc[r] = "debit"
    /\ credits' = debit(credits, request[r].user, local[r].bal_before, local[r].item.price)
    /\ trace' = [trace EXCEPT ![r].writes = @ + 1]
    /\ response' = [response EXCEPT ![r].kind = "success"]
    /\ pc' = [pc EXCEPT ![r] = "done"]
    /\ UNCHANGED << request, local, dispensed, credits0 >>
    /\ UNCHANGED storeVars

\* The response is sent and the context is free for the next request.
Recycle(r) ==
    /\ pc[r] = "done"
    /\ pc' = [pc EXCEPT ![r] = "idle"]
    /\ request' = [request EXCEPT ![r] = NoRequest]
    /\ local' = [local EXCEPT ![r] = NoLocal]
    /\ response' = [response EXCEPT ![r] = NoResponse]
    /\ trace' = [trace EXCEPT ![r] = NoTrace]
    /\ UNCHANGED << credits, dispensed, credits0 >>
    /\ UNCHANGED storeVars

\* ------------------------------------------------- SqlAlchemyAdapter, items
\* Lines 161-167.
_serialize_item(item) == [id |-> item.id, name |-> item.name, price |-> item.price]

\* Lines 189-191.
_get_item(rows, item_id) == query_item(rows, item_id)

\* Lines 58-68.
get_item(rows, item_id) ==
    LET item == _get_item(rows, item_id)
    IN IF item = NoItem THEN NoItem ELSE _serialize_item(item)

\* Lines 112-116: the columns to set. Python takes "" and 0 for false.
updates(item_name, item_price) ==
    [name |-> IF item_name # {} /\ the(item_name) # "" THEN item_name ELSE {},
     price |-> IF item_price # {} /\ the(item_price) # 0 THEN item_price ELSE {}]

\* Lines 118-120: Query.update on the rows with this id, committed. An update
\* that sets no column leaves the rows as they are.
query_update(rows, item_id, upd) ==
    [i \in DOMAIN rows |->
        IF rows[i].id = item_id
        THEN [id |-> rows[i].id,
              name |-> IF upd.name # {} THEN the(upd.name) ELSE rows[i].name,
              price |-> IF upd.price # {} THEN the(upd.price) ELSE rows[i].price]
        ELSE rows[i]]

\* Lines 97-122.
update_item(item_id, item_name, item_price) ==
    IF _get_item(items, item_id) = NoItem
    THEN /\ call' = [op |-> "update_item", id |-> item_id, name |-> item_name,
                     price |-> item_price, before |-> items, after |-> items,
                     result |-> NoItem, raised |-> TRUE]
         /\ UNCHANGED << items, next_id >>
    ELSE LET rows == query_update(items, item_id, updates(item_name, item_price))
         IN /\ items' = rows
            /\ call' = [op |-> "update_item", id |-> item_id, name |-> item_name,
                        price |-> item_price, before |-> items, after |-> rows,
                        result |-> get_item(rows, item_id), raised |-> FALSE]
            /\ UNCHANGED next_id

\* Lines 70-81.
create_item(item_name, item_price) ==
    LET new_item == [id |-> next_id, name |-> item_name, price |-> item_price]
    IN /\ items' = Append(items, new_item)
       /\ next_id' = next_id + 1
       /\ call' = [op |-> "create_item", id |-> 0, name |-> {item_name},
                   price |-> {item_price}, before |-> items, after |-> items',
                   result |-> _serialize_item(new_item), raised |-> FALSE]

\* Lines 83-95.
delete_item(item_id) ==
    LET item == _get_item(items, item_id)
        Others(row) == row.id # item_id
    IN /\ items' = IF item = NoItem THEN items ELSE SelectSeq(items, Others)
       /\ call' = [op |-> "delete_item", id |-> item_id, name |-> {}, price |-> {},
                   before |-> items, after |-> items', result |-> item,
                   raised |-> FALSE]
       /\ UNCHANGED next_id

\* A call of update_item; it is the last operation.
UpdateItem(item_id, item_name, item_price) ==
    /\ update_item(item_id, item_name, item_price)
    /\ drinks' = NoDrinks
    /\ UNCHANGED << credits, pc, request, local, response, trace, credits0, dispensed >>

\* The autoincrement is capped at MaxItems.
CreateItem(item_name, item_price) ==
    /\ next_id <= MaxItems
    /\ create_item(item_name, item_price)
    /\ drinks' = NoDrinks
    /\ UNCHANGED << credits, pc, request, local, response, trace, credits0, dispensed >>

\* The storage layer keeps an item that a slot references.
DeleteItem(item_id) ==
    /\ \A i \in DOMAIN Slot : Slot[i].item # item_id
    /\ delete_item(item_id)
    /\ drinks' = NoDrinks
    /\ UNCHANGED << credits, pc, request, local, response, trace, credits0, dispensed >>

\* --------------------------------------------------------- current_drinks
\* Faulty variant of machine_slots: the filter on Slot.machine is left out.
machine_slots_unfiltered(machine_id) == Slot

\* Line 51.
machine_slots(machine_id) ==
    LET InMachine(row) == row.machine = machine_id
    IN SelectSeq(Slot, InMachine)

\* Lines 52-63: one machine and its slots, each with the item it holds.
machine_contents(machine) ==
    LET rows == machine_slots(machine.id)
    IN [id |-> machine.id, name |-> machine.name, display_name |-> machine.display_name,
        slots |-> [i \in DOMAIN rows |->
                     LET slot_item == query_item(items, rows[i].item)
                     IN [number |-> rows[i].number, active |-> rows[i].active,
                         item |-> [name |-> slot_item.name, price |-> slot_item.price,
                                   id |-> slot_item.id]]]]

\* Lines 29-70: GET /drinks, with the optional parameter `machine`.
current_drinks(machine_name) ==
    LET machines ==
            IF machine_name = {} THEN Machine
            ELSE IF query_machine(the(machine_name)) = NoMachine THEN << >>
            ELSE << query_machine(the(machine_name)) >>
    IN IF machine_name # {} /\ machines = << >>
       THEN [filter |-> machine_name, status |-> 400, machines |-> << >>,
             message |-> << >>]
       ELSE [filter |-> machine_name, status |-> 200,
             machines |-> [i \in DOMAIN machines |-> machine_contents(machines[i])],
             message |-> [i \in DOMAIN machines |-> machines[i].name]]

\* A GET /drinks; it is the last operation.
CurrentDrinks(machine_name) ==
    /\ drinks' = current_drinks(machine_name)
    /\ call' = NoCall
    /\ UNCHANGED << credits, pc, request, local, response, trace, credits0,
                    dispensed, items, next_id >>

\* ------------------------------------------------------------------- Init
Init ==
    /\ credits \in [Users -> 0..MaxCredit]
    /\ credits0 = credits
    /\ items = Item0
    /\ next_id = 3
    /\ pc = [r \in Reqs |-> "idle"]
    /\ request = [r \in Reqs |-> NoRequest]
    /\ local = [r \in Reqs |-> NoLocal]
    /\ response = [r \in Reqs |-> NoResponse]
    /\ trace = [r \in Reqs |-> NoTrace]
    /\ dispensed = [u \in Users |-> 0]
    /\ call = NoCall
    /\ drinks = NoDrinks

\* Drop requests handled concurrently, one execution context each.
Next ==
    \E r \in Reqs :
        \/ \E u \in Users, ct \in ContentTypes, b \in Bodies : Receive(r, u, ct, b)
        \/ GetCredits(r)
        \/ CheckParams(r)
        \/ QueryMachine(r)
        \/ QuerySlot(r)
        \/ QueryItem(r)
        \/ CheckBalance(r)
        \/ \E answer \in Answers : PostDrop(r, answer)
        \/ Debit(r)

Spec == Init /\ [][Next]_vars

\* Drop requests handled one at a time: a request is received only when no
\* other is in flight or waiting to be answered.
NextSeq ==
    \E r \in Reqs :
        \/ /\ \A q \in Reqs : pc[q] = "idle"
           /\ \E u \in Users, ct \in ContentTypes, b \in Bodies : Receive(r, u, ct, b)
        \/ GetCredits(r)
        \/ CheckParams(r)
        \/ QueryMachine(r)
        \/ QuerySlot(r)
        \/ QueryItem(r)
        \/ CheckBalance(r)
        \/ \E answer \in Answers : PostDrop(r, answer)
        \/ Debit(r)
        \/ Recycle(r)

SpecSeq == Init /\ [][NextSeq]_vars

\* The item operations of the adapter and the inventory query.
NextStore ==
    \/ \E id \in 1..MaxItems, n \in NameArgs, p \in PriceArgs : UpdateItem(id, n, p)
    \/ \E n \in NameArgs \ {{}, {""}}, p \in PriceArgs \ {{}} : CreateItem(the(n), the(p))
    \/ \E id \in 1..MaxItems : DeleteItem(id)
    \/ \E m \in {{}} \cup {{n} : n \in MachineNames} : CurrentDrinks(m)

\* No drop request is in flight and every ledger entry holds MaxCredit.
InitStore == Init /\ credits = [u \in Users |-> MaxCredit]

SpecStore == InitStore /\ [][NextStore]_vars

\* ================================================================ claims
\* A success status.
InRange2xx(status) == status >= 200 /\ status < 300

\* The request was answered "Drop successful!".
Succeeded(r) == pc[r] = "done" /\ response[r].kind = "success"

\* The request names no machine/slot pair of the tables, or is not JSON-typed.
PreconditionFails(q) ==
    \/ q.content_type # "application/json"
    \/ q.body.machine = {}
    \/ q.body.slot = {}
    \/ ~ \E i \in DOMAIN Machine, j \in DOMAIN Slot :
           /\ Machine[i].name = the(q.body.machine)
           /\ Slot[j].machine = Machine[i].id
           /\ Slot[j].number = the(q.body.slot)

\* C1: a drop request that the machine answered with a 2xx status ends in
\* success, leaves the caller's balance at the balance the ledger held when
\* the request arrived minus the item's price, and issued exactly one POST.
C1_SuccessfulDropDebitsPrice ==
    \A r \in Reqs :
        (pc[r] = "done" /\ InRange2xx(trace[r].remote)) =>
            /\ response[r].kind = "success"
            /\ credits[request[r].user] = trace[r].at_receipt - local[r].item.price
            /\ trace[r].posts = 1

C1_Witness ==
    \E r \in Reqs :
        /\ pc[r] = "done" /\ trace[r].remote = 200
        /\ local[r].item.price = 3 /\ trace[r].at_receipt = 4
        /\ credits[request[r].user] = 1

\* C2: a request that reached the balance check with a balance lower than
\* the item's price ends with 402, issued no POST and wrote no balance.
C2_InsufficientFundsNoDrop ==
    \A r \in Reqs :
        (pc[r] = "done" /\ local[r].item # NoItem
            /\ local[r].bal_before < local[r].item.price) =>
            /\ response[r] = [status |-> 402, kind |-> "insufficient"]
            /\ trace[r].posts = 0
            /\ trace[r].writes = 0

C2_Witness ==
    \E r \in Reqs :
        /\ pc[r] = "done" /\ response[r].status = 402
        /\ local[r].bal_before = 2 /\ local[r].item.price = 3
        /\ credits[request[r].user] = 2

\* C3 (as claimed): a request whose remote call failed, by a connection error
\* or by any non-2xx answer, never writes the Credit Ledger.
C3_FailedRemoteNoDebit ==
    \A r \in Reqs :
        (trace[r].remote = -1 \/ (trace[r].remote > 0 /\ ~InRange2xx(trace[r].remote))) =>
            trace[r].writes = 0

\* C4: a request that fails a precondition ends with 400, issued no POST and
\* wrote no balance.
C4_PreconditionFailureIs400 ==
    \A r \in Reqs :
        (pc[r] # "idle" /\ PreconditionFails(request[r])) =>
            /\ trace[r].posts = 0
            /\ trace[r].writes = 0
            /\ pc[r] = "done" => response[r].status = 400

C4_Witness ==
    \E r \in Reqs :
        /\ pc[r] = "done" /\ response[r] = bad_params
        /\ request[r].body = [machine |-> {"littledrink"}, slot |-> {2}]
        /\ local[r].bal_before = 4

\* C5 (as claimed): a request naming an inactive slot leads to no POST and
\* to no debit.
C5_InactiveSlotNotDropped ==
    \A r \in Reqs :
        (local[r].slot # NoSlot /\ ~local[r].slot.active) =>
            trace[r].posts = 0 /\ trace[r].writes = 0

\* C6 (as claimed): update_item applies every supplied field, leaves the
\* other field and the other rows as they were, returns the stored row, and
\* on an unknown id raises and changes nothing.
C6_UpdateAppliesSuppliedFields ==
    call.op = "update_item" =>
        LET old == query_item(call.before, call.id)
            new == query_item(call.after, call.id)
        IN IF old = NoItem
           THEN call.raised /\ call.after = call.before
           ELSE /\ ~call.raised
                /\ new.name = (IF call.name # {} THEN the(call.name) ELSE old.name)
                /\ new.price = (IF call.price # {} THEN the(call.price) ELSE old.price)
                /\ call.result = new
                /\ Len(call.after) = Len(call.before)
                /\ \A i \in DOMAIN call.before :
                       call.before[i].id # call.id => call.after[i] = call.before[i]

\* The response lists every Machine row once, each with exactly its Slot rows.
Complete(d) ==
    /\ Len(d.machines) = Len(Machine)
    /\ \A i \in DOMAIN Machine :
           Cardinality({k \in DOMAIN d.machines :
                           /\ d.machines[k].id = Machine[i].id
                           /\ d.machines[k].name = Machine[i].name}) = 1
    /\ \A k \in DOMAIN d.machines :
           LET mine == {j \in DOMAIN Slot : Slot[j].machine = d.machines[k].id}
               slots == d.machines[k].slots
           IN /\ Len(slots) = Cardinality(mine)
              /\ \A j \in mine :
                     \E n \in DOMAIN slots :
                         /\ slots[n].number = Slot[j].number
                         /\ slots[n].active = Slot[j].active
                         /\ slots[n].item.id = Slot[j].item

\* C7: GET /drinks without a filter answers 200 with every machine exactly
\* once, each with all of its slots and no other, and changes no stored state.
C7_DrinksListsEveryMachine ==
    [][(drinks' # NoDrinks /\ drinks'.filter = {}) =>
          /\ drinks'.status = 200
          /\ Complete(drinks')
          /\ UNCHANGED << credits, items, next_id >>]_vars

C7_Witness ==
    /\ drinks.status = 200 /\ drinks.filter = {}
    /\ Len(drinks.machines) = 2
    /\ Len(drinks.machines[1].slots) = 2
    /\ drinks.machines[1].slots[1].item.price = 1

\* C8: when two requests of one user both succeeded from the same balance
\* read (and so did every other successful request of that user), the ledger
\* holds that balance minus one item's price: only one debit is reflected.
C8_RaceLosesADebit ==
    \A r1, r2 \in Reqs :
        (/\ r1 # r2 /\ Succeeded(r1) /\ Succeeded(r2)
         /\ request[r1].user = request[r2].user
         /\ \A q \in Reqs :
                (Succeeded(q) /\ request[q].user = request[r1].user) =>
                    local[q].bal_before = local[r1].bal_before) =>
            \E q \in Reqs :
                /\ Succeeded(q) /\ request[q].user = request[r1].user
                /\ credits[request[q].user] = local[q].bal_before - local[q].item.price

\* Both requests passed the balance check on a balance that covers one item,
\* both POSTs were answered 200, and the balance shows one debit.
C8_Witness ==
    \E r1, r2 \in Reqs :
        /\ r1 # r2 /\ Succeeded(r1) /\ Succeeded(r2)
        /\ request[r1].user = request[r2].user
        /\ local[r1].bal_before = 3 /\ local[r2].bal_before = 3
        /\ local[r1].item.price = 2 /\ local[r2].item.price = 2
        /\ trace[r1].posts = 1 /\ trace[r2].posts = 1
        /\ trace[r1].remote = 200 /\ trace[r2].remote = 200
        /\ credits[request[r1].user] = 1

C10_BalanceIsInitialMinusDrops ==
    (\A r \in Reqs : pc[r] \in {"idle", "done"}) =>
        \A u \in Users :
            credits[u] >= 0 /\ credits[u] = credits0[u] - dispensed[u]

====
